---- MODULE Spec2Model ----
(***************************************************************************)
(* TaleFlow (src/main.py): the caption timing and chunking engine.         *)
(*                                                                         *)
(*   chunk_timeline_entry     splits one timeline entry into caption       *)
(*                            chunks of words_per_chunk words each         *)
(*   build_chunked_timeline   chunks every entry of a timeline, 4 words    *)
(*                            for hook/closer and 3 for the rest           *)
(*   synthesize_script_audio  synthesizes hook, lines and closer, rebuilds *)
(*                            the full track and the segment timeline      *)
(*                                                                         *)
(* A text is a sequence of one-character strings, so that str.split and    *)
(* " ".join are computed rather than assumed.  A Python float is an IEEE   *)
(* 754 double; the quotient total_ms / num_chunks and the truncated        *)
(* products int(i * chunk_ms) are computed with the double's rounding, see *)
(* TrueDiv and IntOfProduct.                                               *)
(***************************************************************************)
EXTENDS Integers, Sequences, FiniteSets, TLC

VARIABLES
    pc,               \* position of the running call
    entry,            \* chunk_timeline_entry: the entry argument
    words_per_chunk,  \* chunk_timeline_entry: the words_per_chunk argument
    outcome,          \* chunk_timeline_entry: what the call produced
    script,           \* synthesize_script_audio: the script argument
    segments_meta,    \* synthesize_script_audio: segments_meta
    hook_audio,       \* synthesize_script_audio: hook_audio
    closer_audio,     \* synthesize_script_audio: closer_audio
    full,             \* synthesize_script_audio: the audio appended to full
    cursor,           \* synthesize_script_audio: cursor
    timeline,         \* the segment timeline (build_chunked_timeline's argument)
    chunked_timeline, \* build_chunked_timeline's return value
    calls             \* number of speech synthesis invocations so far

vars == <<pc, entry, words_per_chunk, outcome, script, segments_meta, hook_audio,
          closer_audio, full, cursor, timeline, chunked_timeline, calls>>

----------------------------------------------------------------------------
(* Bounds of the model.                                                    *)

MaxTextLen == 3        \* every text over Chars up to this length is an input
MaxWords == 13         \* and the texts of 1..MaxWords one-letter words
MaxDurationMs == 61    \* entry durations 0..MaxDurationMs
MaxWordsPerChunk == 4  \* words_per_chunk in -MaxWordsPerChunk..MaxWordsPerChunk
MaxEntries == 2        \* timelines of 0..MaxEntries entries
MaxLines == 2          \* scripts of 0..MaxLines lines
MaxAudioMs == 1        \* a synthesized audio lasts 0..MaxAudioMs ms

----------------------------------------------------------------------------
(* Texts: str.split() and " ".join().                                      *)

Whitespace == {" "}
Chars == {"a", "b"} \cup Whitespace

Min(a, b) == IF a <= b THEN a ELSE b
Max(a, b) == IF a >= b THEN a ELSE b

\* text.split(): the maximal runs of non-whitespace characters, in order.
RECURSIVE SplitFrom(_, _, _, _)
SplitFrom(text, i, cur, acc) ==
    IF i > Len(text)
    THEN IF cur = <<>> THEN acc ELSE Append(acc, cur)
    ELSE IF text[i] \in Whitespace
         THEN SplitFrom(text, i + 1, <<>>, IF cur = <<>> THEN acc ELSE Append(acc, cur))
         ELSE SplitFrom(text, i + 1, Append(cur, text[i]), acc)

Split(text) == SplitFrom(text, 1, <<>>, <<>>)

\* Join with the separator forgotten: "".join(words).
RECURSIVE JoinNoSpace(_)
JoinNoSpace(words) ==
    IF words = <<>> THEN <<>> ELSE words[1] \o JoinNoSpace(Tail(words))

\* " ".join(words)
RECURSIVE Join(_)
Join(words) ==
    IF words = <<>> THEN <<>>
    ELSE IF Len(words) = 1 THEN words[1]
    ELSE words[1] \o <<" ">> \o Join(Tail(words))

\* words[a:b] with Python's treatment of negative and out-of-range indices.
PyIndex(n, a) == IF a < 0 THEN Max(n + a, 0) ELSE Min(a, n)
PySlice(s, a, b) ==
    LET lo == PyIndex(Len(s), a)
        hi == PyIndex(Len(s), b)
    IN  IF lo >= hi THEN <<>> ELSE SubSeq(s, lo + 1, hi)

----------------------------------------------------------------------------
(* Python floats.  total_ms / num_chunks is the double nearest to the      *)
(* quotient (round to nearest, ties to even) and i * chunk_ms the double   *)
(* nearest to the product; int() truncates.  A double has a significand of *)
(* MantissaBits + 1 bits.  For 0 <= t, 1 <= n the quotient t / n is the    *)
(* double  (t * 2^p + err) / (n * 2^p)  with p = MantissaBits - exp, where *)
(* 2^exp <= t/n < 2^(exp+1) and err is the signed rounding error of the    *)
(* significand times n, an integer with |err| <= n/2.  It is kept as the   *)
(* record [num, den, exp, err] and all arithmetic on it is exact.          *)

MantissaBits == 52

RECURSIVE Pow2(_)
Pow2(k) == IF k <= 0 THEN 1 ELSE 2 * Pow2(k - 1)

\* floor(log2(k)) for k >= 1
RECURSIVE FloorLog2(_)
FloorLog2(k) == IF k <= 1 THEN 0 ELSE 1 + FloorLog2(k \div 2)

IsPow2(k) == k = Pow2(FloorLog2(k))

\* 2^p mod n
RECURSIVE PowMod2(_, _)
PowMod2(p, n) == IF p <= 0 THEN 1 % n ELSE (2 * PowMod2(p - 1, n)) % n

\* the binary exponent of t / n: 2^e <= t/n < 2^(e+1), for t, n >= 1
RECURSIVE ExpUp(_, _, _)
ExpUp(t, n, e) == IF n * Pow2(e + 1) <= t THEN ExpUp(t, n, e + 1) ELSE e
RECURSIVE ExpDown(_, _, _)
ExpDown(t, n, j) == IF t * Pow2(j) < n THEN ExpDown(t, n, j + 1) ELSE 0 - j
Exponent(t, n) == IF t >= n THEN ExpUp(t, n, 0) ELSE ExpDown(t, n, 1)

\* t / n as a float (true division), for t >= 0 and n >= 1
TrueDiv(t, n) ==
    IF t = 0 THEN [num |-> 0, den |-> n, exp |-> 0, err |-> 0]
    ELSE
    LET e == Exponent(t, n)
        p == MantissaBits - e
        r == (t * PowMod2(p, n)) % n                   \* (t * 2^p) mod n
        odd == ((t * PowMod2(p, 2 * n)) % (2 * n)) \div n  \* floor(t * 2^p / n) mod 2
        err == IF 2 * r < n THEN 0 - r
               ELSE IF 2 * r > n THEN n - r
               ELSE IF odd = 0 THEN 0 - r ELSE n - r   \* a tie goes to the even significand
    IN  [num |-> t, den |-> n, exp |-> e, err |-> err]

\* IntOfProduct with the product rounded up: math.ceil(i * x).
IntOfProductCeil(i, x) == (i * x.num + x.den - 1) \div x.den

\* int(i * x) for an integer i >= 0 and the float x = TrueDiv(t, n).
\* The exact product is i*t/n + i*err/(n*2^p).  When n does not divide i*t the
\* product is at least 1/n away from every integer, far more than both roundings
\* move it, and truncates to floor(i*t/n).  When i*t/n is an integer k and err < 0
\* the product lies below k by i*|err|/(n*2^p); it rounds back up to k exactly when
\* that distance is at most half the gap between k and the double below it
\* (2^(f-MantissaBits) with f = floor(log2 k), half of that when k is a power of
\* two; on a tie k, whose significand is even, wins), and truncates to k - 1 otherwise.
IntOfProduct(i, x) ==
    LET k == (i * x.num) \div x.den
        rem == (i * x.num) % x.den
        f == FloorLog2(k)
        dist == (IF IsPow2(k) THEN 4 ELSE 2) * i * (0 - x.err)
    IN  IF rem # 0 \/ x.err >= 0 \/ k = 0 THEN k
        ELSE IF dist > x.den * Pow2(f - x.exp) THEN k - 1 ELSE k

\* CeilDiv with the quotient rounded down: len(words) // words_per_chunk.
FloorDiv(a, w) ==
    IF w > 0 THEN a \div w
    ELSE 0 - ((a + (0 - w) - 1) \div (0 - w))

\* math.ceil(a / w) for a >= 0 and w # 0: the float quotient of two small integers
\* is an integer exactly when w divides a, so the ceiling is that of the rationals.
CeilDiv(a, w) ==
    IF w > 0 THEN (a + w - 1) \div w
    ELSE 0 - (a \div (0 - w))

----------------------------------------------------------------------------
(* chunk_timeline_entry                                                    *)

\* A call's outcome: the list it returns, or the exception it raises.
Returned(chunks) == [raised |-> "none", chunks |-> chunks]
Raised(exc) == [raised |-> exc, chunks |-> <<>>]

\* entry.get("type", "line")
NoType == "<absent>"
GetType(e) == IF e.type = NoType THEN "line" ELSE e.type

\* Iteration i of the loop over range(num_chunks), and the ones after it.
RECURSIVE ChunkLoop(_, _, _, _, _, _, _)
ChunkLoop(e, words, wpc, num_chunks, chunk_ms, i, chunks) ==
    IF i >= num_chunks THEN chunks
    ELSE
    LET start_idx == i * wpc
        end_idx == Min((i + 1) * wpc, Len(words))
        chunk_words == PySlice(words, start_idx, end_idx)
        chunk_entry == [type |-> GetType(e),
                        text |-> Join(chunk_words),
                        start_ms |-> e.start_ms + IntOfProduct(i, chunk_ms),
                        end_ms |-> e.start_ms + IntOfProduct(i + 1, chunk_ms)]
    IN  IF chunk_words = <<>>
        THEN ChunkLoop(e, words, wpc, num_chunks, chunk_ms, i + 1, chunks)
        ELSE ChunkLoop(e, words, wpc, num_chunks, chunk_ms, i + 1,
                       Append(chunks, chunk_entry))

\* chunk_timeline_entry with the time shared per word: total_ms / len(words).
chunk_timeline_entry_per_word(e, wpc) ==
    LET words == Split(e.text)
    IN  IF words = <<>> THEN Returned(<<e>>)
        ELSE IF wpc = 0 THEN Raised("ZeroDivisionError")
        ELSE
        LET num_chunks == Max(1, CeilDiv(Len(words), wpc))
            total_ms == e.end_ms - e.start_ms
            chunk_ms == TrueDiv(total_ms, Len(words))
        IN  Returned(ChunkLoop(e, words, wpc, num_chunks, chunk_ms, 0, <<>>))

\* chunk_timeline_entry without the early return for a text without words.
chunk_timeline_entry_unguarded(e, wpc) ==
    LET words == Split(e.text)
    IN  IF wpc = 0 THEN Raised("ZeroDivisionError")
        ELSE
        LET num_chunks == Max(1, CeilDiv(Len(words), wpc))
            total_ms == e.end_ms - e.start_ms
            chunk_ms == TrueDiv(total_ms, num_chunks)
        IN  Returned(ChunkLoop(e, words, wpc, num_chunks, chunk_ms, 0, <<>>))

chunk_timeline_entry(e, wpc) ==
    LET words == Split(e.text)
    IN  IF words = <<>> THEN Returned(<<e>>)
        ELSE IF wpc = 0 THEN Raised("ZeroDivisionError")
        ELSE
        LET num_chunks == Max(1, CeilDiv(Len(words), wpc))
            total_ms == e.end_ms - e.start_ms
            chunk_ms == TrueDiv(total_ms, num_chunks)
        IN  Returned(ChunkLoop(e, words, wpc, num_chunks, chunk_ms, 0, <<>>))

----------------------------------------------------------------------------
(* build_chunked_timeline                                                  *)

HookCloserWords == 4
LineWords == 3

\* build_chunked_timeline with the closer treated as a line.
RECURSIVE build_chunked_timeline_hook_only(_)
build_chunked_timeline_hook_only(tl) ==
    IF tl = <<>> THEN <<>>
    ELSE (IF Head(tl).type = "hook"
          THEN chunk_timeline_entry(Head(tl), HookCloserWords).chunks
          ELSE chunk_timeline_entry(Head(tl), LineWords).chunks)
         \o build_chunked_timeline_hook_only(Tail(tl))

RECURSIVE build_chunked_timeline(_)
build_chunked_timeline(tl) ==
    IF tl = <<>> THEN <<>>
    ELSE (IF Head(tl).type \in {"hook", "closer"}
          THEN chunk_timeline_entry(Head(tl), HookCloserWords).chunks
          ELSE chunk_timeline_entry(Head(tl), LineWords).chunks)
         \o build_chunked_timeline(Tail(tl))

----------------------------------------------------------------------------
(* Inputs.                                                                 *)

\* Every text over Chars of up to MaxTextLen characters.
ShortTexts == UNION {[1..n -> Chars] : n \in 0..MaxTextLen}

\* The i-th of a family of pairwise different words.
Letters == <<"a", "b", "c", "d", "e", "f", "g", "h">>
Word(i) == [j \in 1..(((i - 1) \div Len(Letters)) + 1) |-> Letters[((i - 1) % Len(Letters)) + 1]]

\* The text of the first n words, separated by single spaces.
WordText(n) == Join([i \in 1..n |-> Word(i)])

\* "one two three four five"
ScenarioText ==
    <<"o", "n", "e", " ", "t", "w", "o", " ", "t", "h", "r", "e", "e", " ",
      "f", "o", "u", "r", " ", "f", "i", "v", "e">>
ScenarioEntry == [type |-> "line", text |-> ScenarioText, start_ms |-> 0, end_ms |-> 5000]

ChunkTexts == ShortTexts \cup {WordText(n) : n \in 1..MaxWords}
ChunkStarts == {0, 7}
ChunkEntries ==
    {[type |-> ty, text |-> tx, start_ms |-> s, end_ms |-> s + d] :
        ty \in {"hook", "line", NoType}, tx \in ChunkTexts,
        s \in ChunkStarts, d \in 0..MaxDurationMs}
WordsPerChunkValues == (0 - MaxWordsPerChunk)..MaxWordsPerChunk

\* A text of as many words as a whole number of chunks of either size.
CadenceText == WordText(HookCloserWords * LineWords)
BuildTexts == {<<>>, <<" ">>, WordText(1), WordText(HookCloserWords + 1), CadenceText}
BuildSegments ==
    [type : {"hook", "line", "closer"}, text : BuildTexts, ms : {0, MaxDurationMs}]

\* The contiguous timeline of a sequence of segments, starting at `from`.
RECURSIVE Contiguous(_, _)
Contiguous(segs, from) ==
    IF segs = <<>> THEN <<>>
    ELSE <<[type |-> Head(segs).type, text |-> Head(segs).text,
            start_ms |-> from, end_ms |-> from + Head(segs).ms]>>
         \o Contiguous(Tail(segs), from + Head(segs).ms)
Timelines ==
    {Contiguous(segs, 0) : segs \in UNION {[1..n -> BuildSegments] : n \in 0..MaxEntries}}

ScriptTexts == {WordText(1), WordText(2)}
Scripts ==
    [hook : ScriptTexts,
     lines : UNION {[1..n -> ScriptTexts] : n \in 0..MaxLines},
     closer : ScriptTexts]

NoAudio == [call |-> 0, ms |-> 0]
NoEntry == [type |-> NoType, text |-> <<>>, start_ms |-> 0, end_ms |-> 0]
NoScript == [hook |-> <<>>, lines |-> <<>>, closer |-> <<>>]
NoOutcome == Returned(<<>>)

----------------------------------------------------------------------------
(* A call of chunk_timeline_entry.                                         *)

InitChunk ==
    /\ pc = "call"
    /\ \/ entry \in ChunkEntries /\ words_per_chunk \in WordsPerChunkValues
       \/ entry = ScenarioEntry /\ words_per_chunk = 2
    /\ outcome = NoOutcome
    /\ script = NoScript
    /\ segments_meta = <<>>
    /\ hook_audio = NoAudio
    /\ closer_audio = NoAudio
    /\ full = <<>>
    /\ cursor = 0
    /\ timeline = <<>>
    /\ chunked_timeline = <<>>
    /\ calls = 0

CallChunkTimelineEntry ==
    /\ pc = "call"
    /\ outcome' = chunk_timeline_entry(entry, words_per_chunk)
    /\ pc' = "returned"
    /\ UNCHANGED <<entry, words_per_chunk, script, segments_meta, hook_audio,
                   closer_audio, full, cursor, timeline, chunked_timeline, calls>>

NextChunk == CallChunkTimelineEntry

SpecChunk == InitChunk /\ [][NextChunk]_vars

----------------------------------------------------------------------------
(* A call of build_chunked_timeline.                                       *)

InitBuild ==
    /\ pc = "build"
    /\ timeline \in Timelines
    /\ chunked_timeline = <<>>
    /\ entry = NoEntry
    /\ words_per_chunk = LineWords
    /\ outcome = NoOutcome
    /\ script = NoScript
    /\ segments_meta = <<>>
    /\ hook_audio = NoAudio
    /\ closer_audio = NoAudio
    /\ full = <<>>
    /\ cursor = 0
    /\ calls = 0

CallBuildChunkedTimeline ==
    /\ pc = "build"
    /\ chunked_timeline' = build_chunked_timeline(timeline)
    /\ pc' = "built"
    /\ UNCHANGED <<entry, words_per_chunk, outcome, script, segments_meta, hook_audio,
                   closer_audio, full, cursor, timeline, calls>>

NextBuild == CallBuildChunkedTimeline

SpecBuild == InitBuild /\ [][NextBuild]_vars

----------------------------------------------------------------------------
(* synthesize_script_audio.  tts_to_file followed by AudioSegment.from_file *)
(* yields an audio whose length the speech service decides: any of         *)
(* 0..MaxAudioMs.  An audio is [call, ms]: the synthesis invocation it     *)
(* comes from and its length len(audio).  full is the sequence of audios   *)
(* appended to the track, whose length is the sum of theirs.               *)

AudioLengths == 0..MaxAudioMs

RECURSIVE TrackLen(_)
TrackLen(track) == IF track = <<>> THEN 0 ELSE Head(track).ms + TrackLen(Tail(track))

Init ==
    /\ pc = "hook"
    /\ script \in Scripts
    /\ segments_meta = <<>>
    /\ hook_audio = NoAudio
    /\ closer_audio = NoAudio
    /\ full = <<>>
    /\ cursor = 0
    /\ timeline = <<>>
    /\ chunked_timeline = <<>>
    /\ calls = 0
    /\ entry = NoEntry
    /\ words_per_chunk = LineWords
    /\ outcome = NoOutcome

\* Lines 172-177: the hook is synthesized and measured.
SynthHook ==
    /\ pc = "hook"
    /\ \E ms \in AudioLengths :
        /\ hook_audio' = [call |-> calls + 1, ms |-> ms]
        /\ segments_meta' = Append(segments_meta,
               [type |-> "hook", text |-> script.hook, duration_ms |-> ms])
    /\ calls' = calls + 1
    /\ pc' = "lines"
    /\ UNCHANGED <<entry, words_per_chunk, outcome, script, closer_audio, full,
                   cursor, timeline, chunked_timeline>>

\* Lines 180-184: one iteration of the loop over script["lines"].
SynthLine ==
    /\ pc = "lines"
    /\ Len(segments_meta) - 1 < Len(script.lines)
    /\ \E ms \in AudioLengths :
        segments_meta' = Append(segments_meta,
            [type |-> "line", text |-> script.lines[Len(segments_meta)],
             duration_ms |-> ms])
    /\ calls' = calls + 1
    /\ UNCHANGED <<pc, entry, words_per_chunk, outcome, script, hook_audio,
                   closer_audio, full, cursor, timeline, chunked_timeline>>

\* Lines 187-219: the closer is synthesized and measured; full, cursor and
\* timeline are reset for the rebuild.
SynthCloser ==
    /\ pc = "lines"
    /\ Len(segments_meta) - 1 = Len(script.lines)
    /\ \E ms \in AudioLengths :
        /\ closer_audio' = [call |-> calls + 1, ms |-> ms]
        /\ segments_meta' = Append(segments_meta,
               [type |-> "closer", text |-> script.closer, duration_ms |-> ms])
    /\ calls' = calls + 1
    /\ full' = <<>>
    /\ cursor' = 0
    /\ timeline' = <<>>
    /\ pc' = "rebuild"
    /\ UNCHANGED <<entry, words_per_chunk, outcome, script, hook_audio,
                   chunked_timeline>>

\* TimelineEntry with the duration taken from segments_meta: seg["duration_ms"].
TimelineEntryFromMeta(seg, audio, cur) ==
    [type |-> seg.type, text |-> seg.text, start_ms |-> cur,
     end_ms |-> cur + seg.duration_ms]

\* Lines 236-247: the timeline entry of seg, whose audio starts at cur.
TimelineEntry(seg, audio, cur) ==
    [type |-> seg.type, text |-> seg.text, start_ms |-> cur, end_ms |-> cur + audio.ms]

\* Lines 235-247: audio is appended to the track and seg to the timeline.
Place(seg, audio) ==
    /\ full' = Append(full, audio)
    /\ cursor' = TimelineEntry(seg, audio, cursor).end_ms
    /\ timeline' = Append(timeline, TimelineEntry(seg, audio, cursor))

\* Lines 222-247: one iteration of the rebuild loop over segments_meta.  The hook
\* and the closer reuse their audio; a line is synthesized again.
Rebuild ==
    /\ pc = "rebuild"
    /\ Len(timeline) < Len(segments_meta)
    /\ LET seg == segments_meta[Len(timeline) + 1]
       IN  \/ /\ seg.type = "hook"
              /\ Place(seg, hook_audio)
              /\ calls' = calls
           \/ /\ seg.type = "closer"
              /\ Place(seg, closer_audio)
              /\ calls' = calls
           \/ /\ seg.type \notin {"hook", "closer"}
              /\ \E ms \in AudioLengths : Place(seg, [call |-> calls + 1, ms |-> ms])
              /\ calls' = calls + 1
    /\ UNCHANGED <<pc, entry, words_per_chunk, outcome, script, segments_meta,
                   hook_audio, closer_audio, chunked_timeline>>

\* Lines 249-257: the track is exported and the chunked timeline returned.
Finish ==
    /\ pc = "rebuild"
    /\ Len(timeline) = Len(segments_meta)
    /\ chunked_timeline' = build_chunked_timeline(timeline)
    /\ pc' = "done"
    /\ UNCHANGED <<entry, words_per_chunk, outcome, script, segments_meta, hook_audio,
                   closer_audio, full, cursor, timeline, calls>>

Next == SynthHook \/ SynthLine \/ SynthCloser \/ Rebuild \/ Finish

Spec == Init /\ [][Next]_vars

----------------------------------------------------------------------------
(* Properties of chunk_timeline_entry, under SpecChunk.                    *)

Words == Split(entry.text)
WordCount == Len(Words)
Chunks == outcome.chunks
TotalMs == entry.end_ms - entry.start_ms
ChunkReturned == pc = "returned" /\ outcome.raised = "none"
ChunkMs(c) == c.end_ms - c.start_ms

\* The words of the chunks, in chunk order.
RECURSIVE WordsOf(_)
WordsOf(chunks) ==
    IF chunks = <<>> THEN <<>> ELSE Split(Head(chunks).text) \o WordsOf(Tail(chunks))

\* The least n with n * w >= a, for w >= 1.
Ceiling(a, w) == CHOOSE n \in 0..a : n * w >= a /\ (n = 0 \/ (n - 1) * w < a)

\* C1: with at least one word, start_ms <= end_ms and words_per_chunk >= 1 the
\* chunks partition the entry's interval: the first starts at the entry's start_ms,
\* the last ends at the entry's end_ms, each starts where the previous one ends,
\* and none ends before it starts.
C1_PartitionsInterval ==
    (pc = "returned" /\ WordCount >= 1 /\ words_per_chunk >= 1
        /\ entry.start_ms <= entry.end_ms)
    => /\ outcome.raised = "none"
       /\ Len(Chunks) >= 1
       /\ Chunks[1].start_ms = entry.start_ms
       /\ Chunks[Len(Chunks)].end_ms = entry.end_ms
       /\ \A i \in 1..(Len(Chunks) - 1) : Chunks[i + 1].start_ms = Chunks[i].end_ms
       /\ \A i \in 1..Len(Chunks) : Chunks[i].end_ms >= Chunks[i].start_ms

\* C3 as claimed: for every text and words_per_chunk >= 1 the i-th chunk holds the
\* words [i*w, min((i+1)*w, word_count)), the chunks' words in order are the
\* text's words, every chunk but the last has w words and the last has 1..w.
C3_WordsPreserved_AnyText ==
    (pc = "returned" /\ words_per_chunk >= 1)
    => /\ outcome.raised = "none"
       /\ \A i \in 1..Len(Chunks) :
            Split(Chunks[i].text) =
                SubSeq(Words, (i - 1) * words_per_chunk + 1,
                       Min(i * words_per_chunk, WordCount))
       /\ WordsOf(Chunks) = Words
       /\ \A i \in 1..(Len(Chunks) - 1) : Len(Split(Chunks[i].text)) = words_per_chunk
       /\ Len(Chunks) >= 1
       /\ Len(Split(Chunks[Len(Chunks)].text)) \in 1..words_per_chunk

\* C3 amended: as claimed, except that the last chunk has 1..w words only when
\* the text has a word; the single chunk of a text without words holds none.
C3_WordsPreserved ==
    (pc = "returned" /\ words_per_chunk >= 1)
    => /\ outcome.raised = "none"
       /\ \A i \in 1..Len(Chunks) :
            Split(Chunks[i].text) =
                SubSeq(Words, (i - 1) * words_per_chunk + 1,
                       Min(i * words_per_chunk, WordCount))
       /\ WordsOf(Chunks) = Words
       /\ \A i \in 1..(Len(Chunks) - 1) : Len(Split(Chunks[i].text)) = words_per_chunk
       /\ Len(Chunks) >= 1
       /\ IF WordCount >= 1
          THEN Len(Split(Chunks[Len(Chunks)].text)) \in 1..words_per_chunk
          ELSE Len(Chunks) = 1 /\ Split(Chunks[1].text) = <<>>

C3_Witness ==
    /\ ChunkReturned
    /\ words_per_chunk >= 2
    /\ WordCount > 2 * words_per_chunk
    /\ WordCount % words_per_chunk # 0
    /\ Len(Chunks) >= 3

\* C4: for words_per_chunk >= 1 the call returns ceil(word_count / words_per_chunk)
\* chunks when the text has a word, and the entry itself as the only chunk when it
\* has none.
C4_ChunkCount ==
    (pc = "returned" /\ words_per_chunk >= 1)
    => /\ outcome.raised = "none"
       /\ IF WordCount >= 1
          THEN Len(Chunks) = Ceiling(WordCount, words_per_chunk)
          ELSE Chunks = <<entry>>

C4_Witness ==
    /\ ChunkReturned
    /\ words_per_chunk >= 2
    /\ WordCount > words_per_chunk
    /\ WordCount % words_per_chunk # 0
    /\ Len(Chunks) = (WordCount \div words_per_chunk) + 1

Triples(chunks) ==
    [i \in 1..Len(chunks) |-> <<chunks[i].text, chunks[i].start_ms, chunks[i].end_ms>>]

InScenario ==
    pc = "returned" /\ entry = ScenarioEntry /\ words_per_chunk = 2

\* C5 as claimed: "one two three four five" over [0, 5000] with 2 words per chunk
\* gives ("one two", 0, 1667), ("three four", 1667, 3334), ("five", 3334, 5000).
C5_Scenario_AsClaimed ==
    InScenario
    => /\ outcome.raised = "none"
       /\ Triples(Chunks) =
            << <<SubSeq(ScenarioText, 1, 7), 0, 1667>>,
               <<SubSeq(ScenarioText, 9, 18), 1667, 3334>>,
               <<SubSeq(ScenarioText, 20, 23), 3334, 5000>> >>

\* C5 amended: the boundaries are truncated, ("one two", 0, 1666),
\* ("three four", 1666, 3333), ("five", 3333, 5000).
C5_Scenario ==
    InScenario
    => /\ outcome.raised = "none"
       /\ Triples(Chunks) =
            << <<SubSeq(ScenarioText, 1, 7), 0, 1666>>,
               <<SubSeq(ScenarioText, 9, 18), 1666, 3333>>,
               <<SubSeq(ScenarioText, 20, 23), 3333, 5000>> >>

C5_Witness == InScenario /\ Len(Chunks) = 3

\* C6: with at least one word and words_per_chunk <= 0 the call fails (any
\* exception counts as the error outcome) and returns no chunk.
C6_RejectsNonPositive ==
    (pc = "returned" /\ WordCount >= 1 /\ words_per_chunk <= 0)
    => /\ outcome.raised # "none"
       /\ Chunks = <<>>

\* C9: for start_ms <= end_ms and words_per_chunk >= 1 every chunk lasts the floor
\* or the ceiling of total_ms / num_chunks, so two chunks of an entry differ by at
\* most 1 ms, whatever their word counts.
C9_EqualTimeShare ==
    (pc = "returned" /\ words_per_chunk >= 1 /\ entry.start_ms <= entry.end_ms)
    => /\ outcome.raised = "none"
       /\ Len(Chunks) >= 1
       /\ \A i \in 1..Len(Chunks) :
            ChunkMs(Chunks[i]) \in {TotalMs \div Len(Chunks),
                                    (TotalMs + Len(Chunks) - 1) \div Len(Chunks)}
       /\ \A i, j \in 1..Len(Chunks) : ChunkMs(Chunks[i]) - ChunkMs(Chunks[j]) <= 1

C9_Witness ==
    /\ ChunkReturned
    /\ words_per_chunk >= 2
    /\ Len(Chunks) >= 2
    /\ WordCount % words_per_chunk # 0
    /\ TotalMs % Len(Chunks) # 0
    /\ \E i, j \in 1..Len(Chunks) : ChunkMs(Chunks[i]) # ChunkMs(Chunks[j])

----------------------------------------------------------------------------
(* Properties of build_chunked_timeline, under SpecBuild.                  *)

\* The words per chunk the claims give to an entry, and the number of chunks that
\* makes: one for a text without words.
WordsFor(e) == IF e.type \in {"hook", "closer"} THEN 4 ELSE 3
CountFor(e) ==
    IF Split(e.text) = <<>> THEN 1 ELSE Ceiling(Len(Split(e.text)), WordsFor(e))

\* The number of chunks of the entries before the k-th.
RECURSIVE ChunksBefore(_, _)
ChunksBefore(tl, k) ==
    IF k <= 1 THEN 0 ELSE ChunksBefore(tl, k - 1) + CountFor(tl[k - 1])

\* The j-th chunk of the k-th entry.
ChunkOf(k, j) == chunked_timeline[ChunksBefore(timeline, k) + j]

TwelveWords(e) == Len(Split(e.text)) = 12

\* C7: the result is the entries' chunk sequences in entry order, 4 words per chunk
\* for hook and closer and 3 for every other entry, each chunk with its entry's
\* type inside its entry's interval; a 12-word hook gives 3 chunks and a 12-word
\* line 4.
C7_RoleBasedCadence ==
    pc = "built"
    => /\ Len(chunked_timeline) = ChunksBefore(timeline, Len(timeline) + 1)
       /\ \A k \in 1..Len(timeline) : \A j \in 1..CountFor(timeline[k]) :
            LET e == timeline[k]
                w == Split(e.text)
            IN  /\ ChunkOf(k, j).type = e.type
                /\ ChunkOf(k, j).start_ms >= e.start_ms
                /\ ChunkOf(k, j).end_ms <= e.end_ms
                /\ Split(ChunkOf(k, j).text) =
                     SubSeq(w, (j - 1) * WordsFor(e) + 1, Min(j * WordsFor(e), Len(w)))
       /\ (Len(timeline) = 1 /\ TwelveWords(timeline[1]))
            => Len(chunked_timeline) = (IF timeline[1].type = "line" THEN 4 ELSE 3)

C7_Witness ==
    /\ pc = "built"
    /\ Len(timeline) = 2
    /\ timeline[1].type = "hook" /\ TwelveWords(timeline[1])
    /\ timeline[2].type = "line" /\ TwelveWords(timeline[2])
    /\ ChunkMs(timeline[1]) = ChunkMs(timeline[2])
    /\ ChunkMs(timeline[1]) > 0
    /\ Len(chunked_timeline) = 7
    /\ \A i \in 1..3 : chunked_timeline[i].type = "hook"
    /\ \A i \in 4..7 : chunked_timeline[i].type = "line"

\* C8 as claimed: every chunk of the result has a non-empty text of at least one
\* word, whatever the entries' texts.
C8_NoEmptyText_AnyEntry ==
    pc = "built"
    => \A i \in 1..Len(chunked_timeline) :
            /\ chunked_timeline[i].text # <<>>
            /\ Split(chunked_timeline[i].text) # <<>>

\* C8 amended: every chunk of an entry that has a word has a non-empty text of at
\* least one word; an entry without words (empty or whitespace-only text) is
\* emitted as one chunk, unchanged.
C8_NoEmptyText ==
    pc = "built"
    => /\ Len(chunked_timeline) = ChunksBefore(timeline, Len(timeline) + 1)
       /\ \A k \in 1..Len(timeline) :
            IF Split(timeline[k].text) = <<>>
            THEN ChunkOf(k, 1) = timeline[k]
            ELSE \A j \in 1..CountFor(timeline[k]) :
                    /\ ChunkOf(k, j).text # <<>>
                    /\ Split(ChunkOf(k, j).text) # <<>>

C8_Witness ==
    /\ pc = "built"
    /\ Len(timeline) = 2
    /\ timeline[1].text = <<" ">>
    /\ Len(Split(timeline[2].text)) > WordsFor(timeline[2])
    /\ Len(chunked_timeline) >= 3
    /\ chunked_timeline[1] = timeline[1]

----------------------------------------------------------------------------
(* Properties of synthesize_script_audio, under Spec.                      *)

RECURSIVE MeasuredMs(_)
MeasuredMs(meta) ==
    IF meta = <<>> THEN 0 ELSE Head(meta).duration_ms + MeasuredMs(Tail(meta))

\* C2: the segment timeline is in script order (hook, lines, closer), starts at 0,
\* is contiguous, and ends at the sum of the durations recorded in segments_meta.
C2_TimelineOfMeasuredDurations ==
    pc = "done"
    => /\ Len(timeline) = Len(script.lines) + 2
       /\ timeline[1].type = "hook" /\ timeline[1].text = script.hook
       /\ \A i \in 1..Len(script.lines) :
            timeline[i + 1].type = "line" /\ timeline[i + 1].text = script.lines[i]
       /\ timeline[Len(timeline)].type = "closer"
       /\ timeline[Len(timeline)].text = script.closer
       /\ timeline[1].start_ms = 0
       /\ \A i \in 1..(Len(timeline) - 1) : timeline[i + 1].start_ms = timeline[i].end_ms
       /\ timeline[Len(timeline)].end_ms = MeasuredMs(segments_meta)

\* C10: during and after the rebuild loop the cursor is the length of the track
\* built so far and every timeline entry's interval is the position of its
\* segment's audio in the track, whatever lengths the synthesis returns.
C10_TimelineMatchesTrack ==
    pc \in {"rebuild", "done"}
    => /\ cursor = TrackLen(full)
       /\ Len(timeline) = Len(full)
       /\ \A i \in 1..Len(timeline) :
            /\ timeline[i].start_ms = TrackLen(SubSeq(full, 1, i - 1))
            /\ timeline[i].end_ms = TrackLen(SubSeq(full, 1, i))
            /\ timeline[i].type = segments_meta[i].type
            /\ timeline[i].type = "hook" => full[i] = hook_audio
            /\ timeline[i].type = "closer" => full[i] = closer_audio

C10_Witness ==
    /\ pc = "done"
    /\ Len(timeline) >= 3
    /\ cursor > 0
    /\ \E i \in 1..Len(timeline) :
            /\ segments_meta[i].type = "line"
            /\ segments_meta[i].duration_ms # ChunkMs(timeline[i])

====
